---- MODULE Spec2Model ----
(***************************************************************************)
(* A model of pydcel: the Dcel builder (dcel/dcel.py), Vertex              *)
(* (dcel/vertex.py), HalfEdge and Face (dcel/primitives.py).               *)
(*                                                                         *)
(* Object references are positions in the owning Dcel's lists: a vertex is *)
(* its position in Dcel.vertices (its _index plus one), a half-edge its    *)
(* position in Dcel.hedges, a face its position in Dcel.faces.  Python's   *)
(* None is the position 0.                                                 *)
(*                                                                         *)
(* Coordinates are fixed-point numbers: the integer k stands for the float *)
(* k / Unit.  Sums, products and comparisons of such values are exact in   *)
(* the model; the quotients the code computes are kept as fractions.       *)
(***************************************************************************)
EXTENDS Integers, Sequences, FiniteSets, Bags, TLC

VARIABLES
    vertices,      \* Dcel.vertices: sequence of Vertex records
    hedges,        \* Dcel.hedges: sequence of HalfEdge records
    faces,         \* Dcel.faces: sequence of Face records
    unprocessed,   \* _create_faces: the working set of half-edges
    hedge,         \* _create_faces: the anchor popped from the working set
    current,       \* _create_faces: the half-edge the boundary walk is at
    pc,            \* "idle", or the position inside build_dcel
    call,          \* the last call made on the Dcel and how it ended
    built,         \* whether build_dcel has been called on this Dcel
    edge_args      \* history: the (v1_idx, v2_idx) of every successful add_edge

vars == <<vertices, hedges, faces, unprocessed, hedge, current, pc, call, built, edge_args>>

(***************************************************************************)
(* Bounds of the model and the inputs it draws.                            *)
(***************************************************************************)
MaxVertices == 2
MaxEdges == 1

\* fixed-point resolution: Unit steps per 1.0
Unit == 2 * 5

\* coordinates add_vertex is called with: the corners of the unit square
Coords == {0, Unit}

\* indices add_edge is called with: every valid index and one past the largest
Indices == 0 .. MaxVertices

None == 0

Abs(n) == IF n < 0 THEN -n ELSE n

(***************************************************************************)
(* Vertex (dcel/vertex.py) and HalfEdge (dcel/primitives.py) constructors. *)
(***************************************************************************)
Vertex(x, y) == [x |-> x, y |-> y, hedgelist |-> <<>>]

HalfEdge(v1, v2) ==
    [origin |-> v1, twin |-> None, face |-> None,
     nexthedge |-> None, prevhedge |-> None, dest |-> v2]

\* HalfEdge.destination: the twin's origin when a twin is attached, otherwise
\* the vertex captured by the constructor (field _destination, here dest)
destination(hs, h) ==
    IF hs[h].twin # None THEN hs[hs[h].twin].origin ELSE hs[h].dest

Face(w) == [wedge |-> w, external |-> FALSE]

(***************************************************************************)
(* Dcel.add_vertex and Dcel.add_edge as functions of the Dcel's lists.     *)
(***************************************************************************)
AddVertex(vs, x, y) == Append(vs, Vertex(x, y))

\* the range check of add_edge
OutOfRangeLast(vs, v1_idx, v2_idx) ==
    v1_idx >= Len(vs) - 1 \/ v2_idx >= Len(vs) - 1

OutOfRange(vs, v1_idx, v2_idx) == v1_idx >= Len(vs) \/ v2_idx >= Len(vs)

\* the two half-edges of add_edge, twinned, as they will sit at positions
\* k+1 and k+2 of Dcel.hedges
TwinPairSameWay(v1, v2, k) ==
    << [HalfEdge(v1, v2) EXCEPT !.twin = k + 2],
       [HalfEdge(v1, v2) EXCEPT !.twin = k + 1] >>

TwinPair(v1, v2, k) ==
    << [HalfEdge(v1, v2) EXCEPT !.twin = k + 2],
       [HalfEdge(v2, v1) EXCEPT !.twin = k + 1] >>

\* the successful part of add_edge: [vertices, hedges] afterwards
AddEdge(vs, hs, v1_idx, v2_idx) ==
    LET v1 == v1_idx + 1
        v2 == v2_idx + 1
        k == Len(hs)
        pair == TwinPair(v1, v2, k)
        vs1 == [vs EXCEPT ![v1].hedgelist = Append(@, k + 1)]
        vs2 == [vs1 EXCEPT ![v2].hedgelist = Append(@, k + 2)]
    IN  [vertices |-> vs2, hedges |-> hs \o pair]

(***************************************************************************)
(* HalfEdge.angle, as the order it induces.  angle is atan2(dy, dx) moved  *)
(* into [0, 2*pi); atan2(0, 0) is 0.  Two angles are compared exactly: by  *)
(* half-plane first, then by the sign of the cross product.                *)
(***************************************************************************)
Direction(vs, hs, h) ==
    LET o == vs[hs[h].origin]
        d == vs[destination(hs, h)]
        dx == d.x - o.x
        dy == d.y - o.y
    IN  IF dx = 0 /\ dy = 0 THEN <<1, 0>> ELSE <<dx, dy>>

\* 0 for an angle in [0, pi), 1 for an angle in [pi, 2*pi)
HalfPlane(d) == IF d[2] > 0 \/ (d[2] = 0 /\ d[1] > 0) THEN 0 ELSE 1

\* angle(a) < angle(b)
AngleLess(vs, hs, a, b) ==
    LET da == Direction(vs, hs, a)
        db == Direction(vs, hs, b)
    IN  \/ HalfPlane(da) < HalfPlane(db)
        \/ /\ HalfPlane(da) = HalfPlane(db)
           /\ da[1] * db[2] - da[2] * db[1] > 0

(***************************************************************************)
(* Vertex.sortincident: list.sort(key=angle, reverse=True), a stable sort  *)
(* by descending angle.                                                    *)
(***************************************************************************)
RECURSIVE InsertDescending(_, _, _, _)
InsertDescending(vs, hs, sorted, h) ==
    IF sorted = <<>> THEN <<h>>
    ELSE IF AngleLess(vs, hs, Head(sorted), h)
         THEN <<h>> \o sorted
         ELSE <<Head(sorted)>> \o InsertDescending(vs, hs, Tail(sorted), h)

RECURSIVE SortFrom(_, _, _, _)
SortFrom(vs, hs, sorted, rest) ==
    IF rest = <<>> THEN sorted
    ELSE SortFrom(vs, hs, InsertDescending(vs, hs, sorted, Head(rest)), Tail(rest))

sortincidentUnsorted(vs, hs, list) == list

sortincident(vs, hs, list) == SortFrom(vs, hs, <<>>, list)

(***************************************************************************)
(* build_dcel, lines 44-48: every vertex is added, then the edges in input *)
(* order until one fails the range check.                                  *)
(***************************************************************************)
RECURSIVE AddVertices(_, _)
AddVertices(vs, points) ==
    IF points = <<>> THEN vs
    ELSE AddVertices(AddVertex(vs, Head(points)[1], Head(points)[2]), Tail(points))

RECURSIVE AddEdges(_, _, _, _)
AddEdges(vs, hs, edge_list, k) ==
    IF k > Len(edge_list)
    THEN [vertices |-> vs, hedges |-> hs, exc |-> "none", added |-> SubSeq(edge_list, 1, k - 1)]
    ELSE IF OutOfRange(vs, edge_list[k][1], edge_list[k][2])
         THEN [vertices |-> vs, hedges |-> hs, exc |-> "ValueError",
               added |-> SubSeq(edge_list, 1, k - 1)]
         ELSE LET r == AddEdge(vs, hs, edge_list[k][1], edge_list[k][2])
              IN  AddEdges(r.vertices, r.hedges, edge_list, k + 1)

(***************************************************************************)
(* build_dcel, lines 51-56: per vertex, sort the incident list and set the *)
(* next/prev pointers.  i is the 0-based position of enumerate().          *)
(***************************************************************************)
next_idx_clamped(i, n) == IF i + 1 < n THEN i + 1 ELSE n - 1

next_idx(i, n) == (i + 1) % n

\* list[i - 1] with Python's negative index: position -1 is the last one
prev_idx(i, n) == IF i - 1 < 0 THEN n + (i - 1) ELSE i - 1

RECURSIVE LinkIncident(_, _, _)
LinkIncident(hs, list, i) ==
    IF i >= Len(list) THEN hs
    ELSE LET n == Len(list)
             h == list[i + 1]
             linked == [hs EXCEPT ![h].nexthedge = hs[list[next_idx(i, n) + 1]].twin,
                                  ![h].prevhedge = list[prev_idx(i, n) + 1]]
         IN  LinkIncident(linked, list, i + 1)

RECURSIVE LinkVertices(_, _, _)
LinkVertices(vs, hs, v) ==
    IF v > Len(vs) THEN [vertices |-> vs, hedges |-> hs]
    ELSE LET sorted == sortincident(vs, hs, vs[v].hedgelist)
         IN  LinkVertices([vs EXCEPT ![v].hedgelist = sorted],
                          LinkIncident(hs, sorted, 0), v + 1)

(***************************************************************************)
(* Face (dcel/primitives.py): the boundary walk and what is derived from   *)
(* it.  A face is given by its wedge.  The walk of edges() ends when it is *)
(* back at the wedge; a walk through more half-edges than the Dcel holds   *)
(* never ends in the code, and is cut off here after Len(hs) of them.      *)
(***************************************************************************)
RECURSIVE WalkFrom(_, _, _, _)
WalkFrom(hs, start, cur, fuel) ==
    IF fuel = 0 \/ cur = None THEN <<>>
    ELSE <<cur>> \o (IF hs[cur].nexthedge = start THEN <<>>
                     ELSE WalkFrom(hs, start, hs[cur].nexthedge, fuel - 1))

edges(hs, wedge) == IF wedge = None THEN <<>> ELSE WalkFrom(hs, wedge, wedge, Len(hs))

\* Face.edge_vertices: the (origin, destination) pair of every boundary edge
edge_vertices(hs, wedge) ==
    LET es == edges(hs, wedge)
    IN  [i \in 1 .. Len(es) |-> <<hs[es[i]].origin, destination(hs, es[i])>>]

\* Face.vertex_count: the number of vertices the walk yields
vertex_count(hs, wedge) == Len(edges(hs, wedge))

RECURSIVE Sum(_)
Sum(seq) == IF seq = <<>> THEN 0 ELSE Head(seq) + Sum(Tail(seq))

Frac(n, d) == [n |-> n, d |-> d]

\* the shoelace term of one boundary edge, in squared fixed-point steps
Cross(vs, pair) ==
    vs[pair[1]].x * vs[pair[2]].y - vs[pair[2]].x * vs[pair[1]].y

\* the loop of lines 63-65 over edge_vertices(), summed along the walk
RECURSIVE ShoelaceFrom(_, _, _, _, _)
ShoelaceFrom(vs, hs, start, cur, fuel) ==
    IF fuel = 0 \/ cur = None THEN 0
    ELSE Cross(vs, <<hs[cur].origin, destination(hs, cur)>>)
         + (IF hs[cur].nexthedge = start THEN 0
            ELSE ShoelaceFrom(vs, hs, start, hs[cur].nexthedge, fuel - 1))

ShoelaceSum(vs, hs, wedge) == ShoelaceFrom(vs, hs, wedge, wedge, Len(hs))

\* Face.area: abs(sum) / 2, in squared fixed-point steps
areaSigned(vs, hs, wedge) ==
    IF wedge = None THEN Frac(0, 1) ELSE Frac(ShoelaceSum(vs, hs, wedge), 2)

area(vs, hs, wedge) ==
    IF wedge = None THEN Frac(0, 1) ELSE Frac(Abs(ShoelaceSum(vs, hs, wedge)), 2)

FracAdd(a, b) == Frac(a.n * b.d + b.n * a.d, a.d * b.d)

FracEq(a, b) == a.n * b.d = b.n * a.d

\* HalfEdge.length is sqrt(dx^2 + dy^2): kept as the number under the root
length2(vs, hs, h) ==
    LET o == vs[hs[h].origin]
        d == vs[destination(hs, h)]
    IN  (d.x - o.x) * (d.x - o.x) + (d.y - o.y) * (d.y - o.y)

\* Face.perimeter: a sum of square roots, kept as the bag of the numbers under them
RECURSIVE RootSum(_, _, _)
RootSum(vs, hs, es) ==
    IF es = <<>> THEN EmptyBag
    ELSE SetToBag({length2(vs, hs, Head(es))}) (+) RootSum(vs, hs, Tail(es))

perimeter(vs, hs, wedge) == RootSum(vs, hs, edges(hs, wedge))

\* Face.centroid: the two errors, or Point(cx * factor, cy * factor) with
\* factor = 1 / (6 * area)
centroid(vs, hs, wedge) ==
    IF wedge = None THEN [exc |-> "Face has no edges"]
    ELSE IF area(vs, hs, wedge).n = 0 THEN [exc |-> "Face has zero area"]
    ELSE LET ev == edge_vertices(hs, wedge)
             a == area(vs, hs, wedge)
             cx == Sum([i \in 1 .. Len(ev) |->
                          (vs[ev[i][1]].x + vs[ev[i][2]].x) * Cross(vs, ev[i])])
             cy == Sum([i \in 1 .. Len(ev) |->
                          (vs[ev[i][1]].y + vs[ev[i][2]].y) * Cross(vs, ev[i])])
         IN  [exc |-> "none", x |-> Frac(cx * a.d, 6 * a.n), y |-> Frac(cy * a.d, 6 * a.n)]

(***************************************************************************)
(* Face.isinside and Face._point_on_edge.  A query point is [x, y, dy]:    *)
(* the fixed-point place (x, y) moved up by dy grains, a grain being the   *)
(* 1e-10 of line 168 divided by Tolerance.  A grain is far smaller than    *)
(* any non-zero difference of fixed-point values, so a quantity s + e      *)
(* grains is compared by s first and by e when s is 0.                     *)
(***************************************************************************)
Tolerance == 4

Sign(n) == IF n > 0 THEN 1 ELSE IF n < 0 THEN -1 ELSE 0

\* the sign of s + e grains
SignOf(s, e) == IF s # 0 THEN Sign(s) ELSE Sign(e)

Min(a, b) == IF a <= b THEN a ELSE b

Max(a, b) == IF a >= b THEN a ELSE b

\* utils.signed_area(v1, v2, point), as its sign
signed_area_sign(v1, v2, p) ==
    SignOf((v2.x - v1.x) * (p.y - v1.y) - (p.x - v1.x) * (v2.y - v1.y),
           (v2.x - v1.x) * p.dy)

\* Face._point_on_edge, the edge given by its end points o and d
point_on_edge(p, o, d) ==
    IF ~ /\ Min(o.x, d.x) <= p.x
         /\ p.x <= Max(o.x, d.x)
         /\ SignOf(p.y - Min(o.y, d.y), p.dy) >= 0
         /\ SignOf(Max(o.y, d.y) - p.y, -p.dy) >= 0
    THEN FALSE
    ELSE IF o.x = d.x THEN p.x = o.x
    ELSE IF o.y = d.y THEN p.y = o.y /\ p.dy = 0
    ELSE \* abs(expected_y - point[1]) < 1e-10
         /\ (o.y - p.y) * (d.x - o.x) + (d.y - o.y) * (p.x - o.x) = 0
         /\ Abs(p.dy) < Tolerance

\* the winding number of lines 136-145
winding_step(v1, v2, p) ==
    IF SignOf(p.y - v1.y, p.dy) >= 0
    THEN IF SignOf(v2.y - p.y, -p.dy) > 0 /\ signed_area_sign(v1, v2, p) > 0
         THEN 1 ELSE 0
    ELSE IF SignOf(p.y - v2.y, p.dy) >= 0 /\ signed_area_sign(v1, v2, p) < 0
         THEN -1 ELSE 0

winding_number(vs, hs, wedge, p) ==
    LET ev == edge_vertices(hs, wedge)
    IN  Sum([i \in 1 .. Len(ev) |-> winding_step(vs[ev[i][1]], vs[ev[i][2]], p)])

isinsideNoBoundary(vs, hs, wedge, p) == winding_number(vs, hs, wedge, p) # 0

isinside(vs, hs, wedge, p) ==
    LET ev == edge_vertices(hs, wedge)
    IN  \/ \E i \in 1 .. Len(ev) :
              LET o == vs[ev[i][1]]
                  d == vs[ev[i][2]]
              IN  \/ p.x = o.x /\ p.y = o.y /\ p.dy = 0
                  \/ p.x = d.x /\ p.y = d.y /\ p.dy = 0
                  \/ point_on_edge(p, o, d)
        \/ winding_number(vs, hs, wedge, p) # 0

(***************************************************************************)
(* Dcel.statistics.                                                        *)
(***************************************************************************)
RECURSIVE FracSum(_)
FracSum(seq) == IF seq = <<>> THEN Frac(0, 1) ELSE FracAdd(Head(seq), FracSum(Tail(seq)))

RECURSIVE BagSum(_)
BagSum(seq) == IF seq = <<>> THEN EmptyBag ELSE Head(seq) (+) BagSum(Tail(seq))

\* [f for f in self.faces if not f.external]
InternalFaces(fs) == SelectSeq(fs, LAMBDA f : ~f.external)

statistics(vs, hs, fs) ==
    LET internal == InternalFaces(fs)
    IN  [vertices |-> Len(vs),
         edges |-> Len(hs) \div 2,
         faces |-> Len(fs),
         internal_faces |-> Len(internal),
         total_perimeter |->
             BagSum([i \in 1 .. Len(internal) |-> perimeter(vs, hs, internal[i].wedge)]),
         total_area |->
             FracSum([i \in 1 .. Len(internal) |-> area(vs, hs, internal[i].wedge)])]

(***************************************************************************)
(* The inputs build_dcel is called with.                                   *)
(***************************************************************************)
Corners == << <<0, 0>>, <<Unit, 0>>, <<Unit, Unit>>, <<0, Unit>> >>

\* the unit square and its four sides
UnitSquare == [points |-> Corners, edge_list |-> << <<0, 1>>, <<1, 2>>, <<2, 3>>, <<3, 0>> >>]

\* the two diagonals of the unit square, which cross
Diagonals == [points |-> Corners, edge_list |-> << <<0, 2>>, <<1, 3>> >>]

\* two opposite sides: two components
TwoSides == [points |-> Corners, edge_list |-> << <<0, 1>>, <<2, 3>> >>]

\* a corner joined to the three others, given in ascending angle order
Fan == [points |-> Corners, edge_list |-> << <<0, 1>>, <<0, 2>>, <<0, 3>> >>]

\* the same, given in neither ascending nor descending angle order, from the far end
FanMixed == [points |-> Corners, edge_list |-> << <<2, 0>>, <<0, 3>>, <<1, 0>> >>]

\* a triangle
Triangle == [points |-> SubSeq(Corners, 1, 3), edge_list |-> << <<0, 1>>, <<1, 2>>, <<2, 0>> >>]

\* the unit square with one diagonal: two triangles
SquareDiagonal ==
    [points |-> Corners,
     edge_list |-> << <<0, 1>>, <<1, 2>>, <<2, 3>>, <<3, 0>>, <<0, 2>> >>]

\* a self-loop and two edges at one vertex, and an isolated vertex
LoopAndEdges ==
    [points |-> Corners, edge_list |-> << <<0, 0>>, <<0, 3>>, <<1, 0>> >>]

\* the same edge three times, once reversed
Parallel ==
    [points |-> SubSeq(Corners, 1, 2), edge_list |-> << <<0, 1>>, <<1, 0>>, <<0, 1>> >>]

\* two vertices at one place, both joined to a third
Coincident ==
    [points |-> << <<0, 0>>, <<Unit, Unit>>, <<Unit, Unit>> >>,
     edge_list |-> << <<0, 1>>, <<0, 2>>, <<1, 2>> >>]

\* an edge list whose second edge names a vertex that does not exist
BadSecond == [points |-> SubSeq(Corners, 1, 2), edge_list |-> << <<0, 1>>, <<1, 2>> >>]

\* an edge list whose first edge does
BadFirst == [points |-> SubSeq(Corners, 1, 2), edge_list |-> << <<2, 0>>, <<0, 1>> >>]

Nothing == [points |-> <<>>, edge_list |-> <<>>]

NamedInputs ==
    {UnitSquare, Diagonals, TwoSides, Fan, FanMixed, Triangle, SquareDiagonal,
     LoopAndEdges, Parallel, Coincident, BadSecond, BadFirst}

\* a vertex list without edges, and an edge list without vertices
VerticesOnly == [points |-> SubSeq(Corners, 1, 2), edge_list |-> <<>>]

EdgesOnly == [points |-> <<>>, edge_list |-> << <<0, 1>> >>]

OneSided == {VerticesOnly, EdgesOnly}

\* the arguments Dcel(vertices, edges) is constructed with
ConstructorInputs == NamedInputs \cup OneSided \cup {Nothing}

(***************************************************************************)
(* The state after Dcel(): three empty lists (dcel.py lines 10-12).        *)
(***************************************************************************)
Init ==
    /\ vertices = <<>>
    /\ hedges = <<>>
    /\ faces = <<>>
    /\ unprocessed = {}
    /\ hedge = None
    /\ current = None
    /\ pc = "idle"
    /\ call = [op |-> "Dcel", args |-> <<>>, exc |-> "none"]
    /\ built = FALSE
    /\ edge_args = <<>>

add_vertex(x, y) ==
    /\ pc = "idle"
    /\ ~built
    /\ Len(vertices) < MaxVertices
    /\ vertices' = AddVertex(vertices, x, y)
    /\ call' = [op |-> "add_vertex", args |-> <<x, y>>, exc |-> "none"]
    /\ UNCHANGED <<hedges, faces, unprocessed, hedge, current, pc, built, edge_args>>

add_edge(v1_idx, v2_idx) ==
    /\ pc = "idle"
    /\ ~built
    /\ Len(edge_args) < MaxEdges
    /\ IF OutOfRange(vertices, v1_idx, v2_idx)
       THEN /\ call' = [op |-> "add_edge", args |-> <<v1_idx, v2_idx>>, exc |-> "ValueError"]
            /\ UNCHANGED <<vertices, hedges, edge_args>>
       ELSE LET r == AddEdge(vertices, hedges, v1_idx, v2_idx)
            IN  /\ vertices' = r.vertices
                /\ hedges' = r.hedges
                /\ edge_args' = Append(edge_args, <<v1_idx, v2_idx>>)
                /\ call' = [op |-> "add_edge", args |-> <<v1_idx, v2_idx>>, exc |-> "none"]
    /\ UNCHANGED <<faces, unprocessed, hedge, current, pc, built>>

\* build_dcel up to the call of _create_faces, and the first line of it
build_dcel(points, edge_list) ==
    /\ pc = "idle"
    /\ ~built
    /\ built' = TRUE
    /\ call' = [op |-> "build_dcel", args |-> <<>>,
                exc |-> AddEdges(AddVertices(vertices, points), hedges, edge_list, 1).exc]
    /\ LET r == AddEdges(AddVertices(vertices, points), hedges, edge_list, 1)
       IN  /\ edge_args' = edge_args \o r.added
           /\ IF r.exc # "none"
              THEN /\ vertices' = r.vertices
                   /\ hedges' = r.hedges
                   /\ UNCHANGED <<unprocessed, pc>>
              ELSE LET l == LinkVertices(r.vertices, r.hedges, 1)
                   IN  /\ vertices' = l.vertices
                       /\ hedges' = l.hedges
                       /\ unprocessed' = 1 .. Len(l.hedges)
                       /\ pc' = "create_faces"
    /\ UNCHANGED <<faces, hedge, current>>

\* __init__ line 14, `if vertices and edges`: both lists are non-empty
ShouldBuildEither(points, edge_list) == points # <<>> \/ edge_list # <<>>

ShouldBuild(points, edge_list) == points # <<>> /\ edge_list # <<>>

\* Dcel(vertices, edges): __init__ lines 14-15 on the three empty lists of
\* Init, with build_dcel's body (up to the first line of _create_faces) when
\* the test of line 14 passes.  Dcel() without arguments is Init itself.
Dcel(points, edge_list) ==
    /\ pc = "idle"
    /\ call = [op |-> "Dcel", args |-> <<>>, exc |-> "none"]
    /\ IF ShouldBuild(points, edge_list)
       THEN LET r == AddEdges(AddVertices(vertices, points), hedges, edge_list, 1)
            IN  /\ built' = TRUE
                /\ call' = [op |-> "Dcel", args |-> <<points, edge_list>>, exc |-> r.exc]
                /\ edge_args' = edge_args \o r.added
                /\ IF r.exc # "none"
                   THEN /\ vertices' = r.vertices
                        /\ hedges' = r.hedges
                        /\ UNCHANGED <<unprocessed, pc>>
                   ELSE LET l == LinkVertices(r.vertices, r.hedges, 1)
                        IN  /\ vertices' = l.vertices
                            /\ hedges' = l.hedges
                            /\ unprocessed' = 1 .. Len(l.hedges)
                            /\ pc' = "create_faces"
       ELSE /\ call' = [op |-> "Dcel", args |-> <<points, edge_list>>, exc |-> "none"]
            /\ UNCHANGED <<vertices, hedges, unprocessed, pc, built, edge_args>>
    /\ UNCHANGED <<faces, hedge, current>>

\* _create_faces, lines 64-72: pop a half-edge; if it has no face yet, start one
pop ==
    /\ pc = "create_faces"
    /\ unprocessed # {}
    /\ \E h \in unprocessed :
          /\ unprocessed' = unprocessed \ {h}
          /\ IF hedges[h].face = None
             THEN /\ faces' = Append(faces, Face(h))
                  /\ hedge' = h
                  /\ current' = h
                  /\ pc' = "walk"
             ELSE /\ hedge' = None
                  /\ UNCHANGED <<faces, current, pc>>
    /\ UNCHANGED <<vertices, hedges, call, built, edge_args>>

\* line 74, current.face = face, in a walk anchored at anchor
set_face_after_anchor(hs, cur, anchor, f) ==
    IF cur = anchor THEN hs ELSE [hs EXCEPT ![cur].face = f]

set_face(hs, cur, anchor, f) == [hs EXCEPT ![cur].face = f]

\* _create_faces, lines 73-78: one turn of the boundary walk.  hedge and
\* current are dead once the walk is back at its anchor, and are cleared.
walk ==
    /\ pc = "walk"
    /\ hedges' = set_face(hedges, current, hedge, Len(faces))
    /\ unprocessed' = unprocessed \ {current}
    /\ IF hedges[current].nexthedge = hedge
       THEN /\ pc' = "create_faces"
            /\ current' = None
            /\ hedge' = None
       ELSE /\ pc' = "walk"
            /\ current' = hedges[current].nexthedge
            /\ hedge' = hedge
    /\ UNCHANGED <<vertices, faces, call, built, edge_args>>

\* _create_faces, lines 81-83, and the return of build_dcel
is_external(a) == a.n < 0

mark_external ==
    /\ pc = "create_faces"
    /\ unprocessed = {}
    /\ faces' = [f \in 1 .. Len(faces) |->
                    IF is_external(area(vertices, hedges, faces[f].wedge))
                    THEN [faces[f] EXCEPT !.external = TRUE]
                    ELSE faces[f]]
    /\ pc' = "idle"
    /\ UNCHANGED <<vertices, hedges, unprocessed, hedge, current, call, built, edge_args>>

Next ==
    \/ \E x \in Coords, y \in Coords : add_vertex(x, y)
    \/ \E i \in Indices, j \in Indices : add_edge(i, j)
    \/ build_dcel(Nothing.points, Nothing.edge_list)
    \/ \E in \in NamedInputs \cup OneSided : vertices = <<>> /\ build_dcel(in.points, in.edge_list)
    \/ \E in \in ConstructorInputs : Dcel(in.points, in.edge_list)
    \/ pop
    \/ walk
    \/ mark_external

Spec == Init /\ [][Next]_vars

\* a step of _create_faces
create_faces_step == pop \/ walk \/ mark_external

\* build_dcel is synchronous and runs to completion: a started _create_faces
\* always takes its next step
FairSpec == Spec /\ WF_vars(create_faces_step)

(***************************************************************************)
(* Properties.                                                             *)
(***************************************************************************)
\* build_dcel has returned without an error
BuildReturned == pc = "idle" /\ built /\ call.op = "build_dcel" /\ call.exc = "none"

\* the half-edge k steps of nexthedge after h
RECURSIVE NextPow(_, _, _)
NextPow(hs, h, k) == IF k = 0 \/ h = None THEN h ELSE NextPow(hs, hs[h].nexthedge, k - 1)

\* the nexthedge cycle through h, as a set
Orbit(hs, h) == {NextPow(hs, h, k) : k \in 0 .. Len(hs)}

HedgeIds == 1 .. Len(hedges)

FaceIds == 1 .. Len(faces)

\* C1: after one build_dcel on in-range input every half-edge is owned by
\* exactly one face of Dcel.faces; for every face f, following nexthedge
\* from f.wedge is back at f.wedge after exactly f.vertex_count steps and not
\* before, every half-edge on the way has face f; and there are as many faces
\* as nexthedge cycles.
C1_FaceCycles ==
    BuildReturned =>
        /\ \A h \in HedgeIds :
              /\ hedges[h].face \in FaceIds
              /\ Cardinality({f \in FaceIds : \E i \in 1 .. Len(edges(hedges, faces[f].wedge)) :
                                 edges(hedges, faces[f].wedge)[i] = h}) = 1
        /\ \A f \in FaceIds :
              LET w == faces[f].wedge
                  n == vertex_count(hedges, w)
              IN  /\ w \in HedgeIds
                  /\ n >= 1
                  /\ NextPow(hedges, w, n) = w
                  /\ \A k \in 1 .. n - 1 : NextPow(hedges, w, k) # w
                  /\ \A k \in 0 .. n - 1 : hedges[NextPow(hedges, w, k)].face = f
        /\ Len(faces) = Cardinality({Orbit(hedges, h) : h \in HedgeIds})

\* C1's case: a build that produced several faces, one of them with three or
\* more half-edges
C1_Witness ==
    /\ BuildReturned
    /\ Len(faces) >= 2
    /\ \E f \in FaceIds : vertex_count(hedges, faces[f].wedge) >= 3

\* C2 as amended: in every state, every half-edge h has h.twin.twin = h and
\* h.origin = h.twin.destination, and of the two half-edges (h1, h2) made by
\* the k-th successful add_edge(i, j), h1's destination is the vertex at j
\* and h2's destination is the vertex at i.
C2_TwinSymmetry ==
    /\ Len(hedges) = 2 * Len(edge_args)
    /\ \A h \in HedgeIds :
          /\ hedges[h].twin \in HedgeIds
          /\ hedges[hedges[h].twin].twin = h
          /\ hedges[h].origin = destination(hedges, hedges[h].twin)
    /\ \A k \in 1 .. Len(edge_args) :
          /\ destination(hedges, 2 * k - 1) = edge_args[k][2] + 1
          /\ destination(hedges, 2 * k) = edge_args[k][1] + 1

\* C2's case: add_edge has just made an edge between two different vertices
C2_Witness ==
    /\ call.op = "add_edge"
    /\ call.exc = "none"
    /\ call.args[1] # call.args[2]
    /\ Len(hedges) >= 2

\* C2 as claimed: after any sequence of add_vertex and add_edge calls the
\* destination of every half-edge is the vertex at the second index of the
\* add_edge call that made it.
C2_DestinationIsSecondIndex ==
    ~built =>
        \A h \in HedgeIds : destination(hedges, h) = edge_args[(h + 1) \div 2][2] + 1

\* C3: a call add_edge(i, j) on a Dcel of n vertices ends in the out-of-range
\* error exactly when i >= n or j >= n, and then leaves Dcel.vertices (with
\* every incident list), Dcel.hedges and Dcel.faces as they were.
C3_AddEdgeRangeCheck ==
    [][call'.op = "add_edge" =>
          /\ (call'.exc = "ValueError") <=>
                 (call'.args[1] >= Len(vertices) \/ call'.args[2] >= Len(vertices))
          /\ call'.exc = "ValueError" =>
                 /\ vertices' = vertices
                 /\ hedges' = hedges
                 /\ faces' = faces
                 /\ edge_args' = edge_args
          /\ call'.exc = "none" => Len(hedges') = Len(hedges) + 2]_vars

\* C3's case: add_edge has failed on a valid first index and an invalid second
C3_Witness ==
    /\ call.op = "add_edge"
    /\ call.exc = "ValueError"
    /\ call.args[1] < Len(vertices)
    /\ call.args[2] >= Len(vertices)

\* C4 as claimed: after build_dcel the nexthedge of every half-edge leaves
\* from that half-edge's destination, so the pairs of edge_vertices() chain
\* head to tail in every face.
C4_NextLeavesDestination ==
    BuildReturned =>
        /\ \A h \in HedgeIds : hedges[hedges[h].nexthedge].origin = destination(hedges, h)
        /\ \A f \in FaceIds :
              LET ev == edge_vertices(hedges, faces[f].wedge)
              IN  \A i \in 1 .. Len(ev) : ev[i][2] = ev[(i % Len(ev)) + 1][1]

(***************************************************************************)
(* Plane geometry the properties of centroid and isinside are stated with. *)
(***************************************************************************)
\* the corners of a boundary, in the order edge_vertices() gives its edges
CornersOf(vs, ev) == [i \in 1 .. Len(ev) |-> vs[ev[i][1]]]

After(i, n) == (i % n) + 1

\* the pairs follow one another around a closed chain, in either direction
Chained(ev) ==
    \/ \A i \in 1 .. Len(ev) : ev[i][2] = ev[After(i, Len(ev))][1]
    \/ \A i \in 1 .. Len(ev) : ev[i][1] = ev[After(i, Len(ev))][2]

Turn(a, b, c) == (b.x - a.x) * (c.y - b.y) - (b.y - a.y) * (c.x - b.x)

\* a triangle or a convex quadrilateral of non-zero area: a simple polygon
ConvexPolygon(vs, ev) ==
    LET n == Len(ev)
        c == CornersOf(vs, ev)
    IN  /\ n \in {3, 4}
        /\ Chained(ev)
        /\ \/ \A i \in 1 .. n : Turn(c[i], c[After(i, n)], c[After(After(i, n), n)]) > 0
           \/ \A i \in 1 .. n : Turn(c[i], c[After(i, n)], c[After(After(i, n), n)]) < 0

\* a triangle or a parallelogram: its centre of mass is the mean of its corners
MeanCentred(vs, ev) ==
    LET c == CornersOf(vs, ev)
    IN  /\ ConvexPolygon(vs, ev)
        /\ Len(ev) = 4 => /\ c[1].x + c[3].x = c[2].x + c[4].x
                          /\ c[1].y + c[3].y = c[2].y + c[4].y

MeanOfCorners(vs, ev) ==
    LET c == CornersOf(vs, ev)
    IN  [x |-> Frac(Sum([i \in 1 .. Len(c) |-> c[i].x]), Len(c)),
         y |-> Frac(Sum([i \in 1 .. Len(c) |-> c[i].y]), Len(c))]

BuiltFromUnitSquare ==
    /\ BuildReturned
    /\ [i \in 1 .. Len(vertices) |-> <<vertices[i].x, vertices[i].y>>] = UnitSquare.points
    /\ edge_args = UnitSquare.edge_list

\* C5 as claimed: the centroid of a face whose boundary is a simple polygon
\* of non-zero area is the polygon's centre of mass whichever way the
\* boundary runs (stated for triangles and parallelograms, whose centre of
\* mass is the mean of their corners), and every face of the Dcel built from
\* the unit square has centroid (0.5, 0.5).
C5_CentroidIsCentreOfMass ==
    BuildReturned =>
        \A f \in FaceIds :
            LET w == faces[f].wedge
                ev == edge_vertices(hedges, w)
                c == centroid(vertices, hedges, w)
            IN  /\ MeanCentred(vertices, ev) =>
                      /\ c.exc = "none"
                      /\ FracEq(c.x, MeanOfCorners(vertices, ev).x)
                      /\ FracEq(c.y, MeanOfCorners(vertices, ev).y)
                /\ BuiltFromUnitSquare =>
                      /\ c.exc = "none"
                      /\ FracEq(c.x, Frac(Unit, 2))
                      /\ FracEq(c.y, Frac(Unit, 2))

\* the points isinside is asked about: places on and around the unit square,
\* each also moved up or down by less than, and by exactly, the tolerance
QueryPoints ==
    [x : {-1, 0, 5, Unit, 2 * Unit}, y : {-1, 0, 5, Unit, 2 * Unit},
     dy : {-Tolerance, -1, 0, 1, Tolerance}]

\* which side of the line from a to b the point p is on
Side(a, b, p) ==
    SignOf((b.x - a.x) * (p.y - a.y) - (b.y - a.y) * (p.x - a.x), (b.x - a.x) * p.dy)

\* p is in the closed convex polygon: nowhere on the outer side of an edge
InClosedPolygon(vs, ev, p) ==
    \/ \A i \in 1 .. Len(ev) : Side(vs[ev[i][1]], vs[ev[i][2]], p) >= 0
    \/ \A i \in 1 .. Len(ev) : Side(vs[ev[i][1]], vs[ev[i][2]], p) <= 0

\* p is off a slanted boundary edge, inside the edge's bounding box, by less
\* than the tolerance measured along y
NearSlantedEdge(vs, ev, p) ==
    \E i \in 1 .. Len(ev) :
        LET o == vs[ev[i][1]]
            d == vs[ev[i][2]]
        IN  /\ o.x # d.x
            /\ o.y # d.y
            /\ Min(o.x, d.x) <= p.x /\ p.x <= Max(o.x, d.x)
            /\ SignOf(p.y - Min(o.y, d.y), p.dy) >= 0
            /\ SignOf(Max(o.y, d.y) - p.y, -p.dy) >= 0
            /\ Turn(o, d, [x |-> p.x, y |-> p.y]) = 0
            /\ p.dy # 0
            /\ Abs(p.dy) < Tolerance

At(x, y) == [x |-> x, y |-> y, dy |-> 0]

\* the six points of the unit square's containment table
UnitSquareTable ==
    /\ BuiltFromUnitSquare =>
          \A f \in FaceIds :
              LET w == faces[f].wedge
              IN  /\ isinside(vertices, hedges, w, At(5, 5))
                  /\ isinside(vertices, hedges, w, At(0, 0))
                  /\ isinside(vertices, hedges, w, At(5, 0))
                  /\ isinside(vertices, hedges, w, At(Unit, Unit))
                  /\ ~isinside(vertices, hedges, w, At(2 * Unit, 2 * Unit))
                  /\ ~isinside(vertices, hedges, w, At(5, -1))

C7_BuildTerminates ==
    /\ (pc = "walk") ~> (pc = "create_faces")
    /\ (pc # "idle") ~> (pc = "idle" /\ unprocessed = {} /\ call.exc = "none")

\* C7's case: a build that has returned on an input with a self-loop and an
\* isolated vertex
C7_Witness ==
    /\ BuildReturned
    /\ unprocessed = {}
    /\ \E h \in HedgeIds : hedges[h].origin = destination(hedges, h)
    /\ \E v \in 1 .. Len(vertices) : vertices[v].hedgelist = <<>>
    /\ Len(faces) >= 1

C9_FailedBuildChangesNothing ==
    [][(call'.op = "build_dcel" /\ call'.exc = "ValueError") =>
          /\ vertices' = vertices
          /\ hedges' = hedges
          /\ faces' = faces]_vars

\* angle(a) = angle(b)
SameAngle(vs, hs, a, b) == ~AngleLess(vs, hs, a, b) /\ ~AngleLess(vs, hs, b, a)

C11_NextPrevInverse ==
    BuildReturned =>
        \A f \in FaceIds :
            LET es == edges(hedges, faces[f].wedge)
                m == Len(es)
            IN  \A i \in 1 .. m :
                    /\ hedges[es[i]].nexthedge \in HedgeIds
                    /\ hedges[es[i]].prevhedge \in HedgeIds
                    /\ hedges[hedges[es[i]].nexthedge].prevhedge = es[i]
                    /\ hedges[hedges[es[i]].prevhedge].nexthedge = es[i]
                    /\ hedges[es[i]].nexthedge = es[After(i, m)]
                    /\ hedges[es[i]].prevhedge = es[((i + m - 2) % m) + 1]

\* C12: the constructor Dcel(vertices, edges) builds only when both lists are
\* non-empty: with an empty vertex list or an empty edge list it leaves zero
\* vertices, zero half-edges and zero faces, whereas build_dcel with the same
\* arguments adds every vertex of its vertex list; and a constructor that
\* has returned on non-empty valid input has left len(vertices) vertices
\* and 2 * len(edges) half-edges.
C12_ConstructorBuildsOnlyWithBoth ==
    /\ [](call.op = "Dcel" /\ Len(call.args) = 2 =>
             /\ (call.args[1] = <<>> \/ call.args[2] = <<>>) =>
                    /\ vertices = <<>>
                    /\ hedges = <<>>
                    /\ faces = <<>>
                    /\ pc = "idle"
             /\ (call.args[1] # <<>> /\ call.args[2] # <<>> /\ call.exc = "none") =>
                    /\ Len(vertices) = Len(call.args[1])
                    /\ Len(hedges) = 2 * Len(call.args[2])
                    /\ built)
    /\ [][\A in \in ConstructorInputs :
              build_dcel(in.points, in.edge_list) =>
                  /\ Len(vertices') = Len(vertices) + Len(in.points)
                  /\ \A i \in 1 .. Len(in.points) :
                        /\ vertices'[Len(vertices) + i].x = in.points[i][1]
                        /\ vertices'[Len(vertices) + i].y = in.points[i][2]]_vars

\* C12's case: a Dcel constructed with a non-empty vertex list and an empty
\* edge list, which holds nothing
C12_Witness ==
    /\ call.op = "Dcel"
    /\ Len(call.args) = 2
    /\ call.args[1] # <<>>
    /\ call.args[2] = <<>>
    /\ vertices = <<>>
    /\ ~built

====
